---------------------------- MODULE Spec2Model ----------------------------
(***************************************************************************)
(* A model of the PSoC_2_Pi firmware bridge:                               *)
(*   - Python.c: Python_getData / Python_parser / Python_sendData, the     *)
(*     4-byte command frame decoder, the address dispatcher and the        *)
(*     response encoder, on the SPI and on the I2C binding;                *)
(*   - GPIO_12_7.c (and its siblings generated from the same template):    *)
(*     the masked-register digital port driver.                            *)
(* The specifications share the variables:                                 *)
(*   Spec        the request/response loop of the bridge with its host,    *)
(*   SpecParser  Python_parser applied to an arbitrary vessel,             *)
(*   SpecPort    two logical ports mapped onto one Data register,          *)
(*   SpecTwin    two runs of the bridge fed different earlier frames,      *)
(*   SpecPins    Read and ReadDataReg against Writes and pin changes,      *)
(*   SpecRace    Writes of two ports with their two steps interleaved,     *)
(*   SpecInt     ClearInterrupt on a shared interrupt status register,     *)
(*   SpecBuild   the functions a build of a Pins component defines.        *)
(***************************************************************************)
EXTENDS Integers, Sequences, FiniteSets, TLC

VARIABLES
    binding,    \* "SPI" or "I2C": which of USE_SPI / USE_I2C the build defines
    compiled,   \* addresses of the peripheral cases the build compiles in
    vessel,     \* the vessel_type object: [addr, cmd, dat, pin, port]
    vessel_in,  \* history: the vessel as it was on entry to the last Python_parser call
    pc,         \* position of the firmware's flow of control
    got,        \* Python_getData's locals read so far: <<addr, cmd, dat_lo, dat_hi>>
    rx,         \* SPI: the slave's Rx buffer, oldest byte first
    WR_buf,     \* I2C: the slave write buffer (the host writes into it)
    wrIdx,      \* I2C: I2C_1_SlaveGetWriteBufSize(), bytes written since the last clear
    wrCmplt,    \* I2C: I2C_1_SSTAT_WR_CMPLT of the slave status
    tx,         \* bytes handed to the transport by Python_sendData, in send order
    rdIdx,      \* bytes of tx the host has taken (I2C: I2C_1_SlaveGetReadBufSize())
    rdCmplt,    \* I2C: I2C_1_SSTAT_RD_CMPLT of the slave status
    req,        \* history: the bytes the host delivered for the current request
    resp,       \* history: the value the last Python_sendData call was given
    out,        \* history: the response bytes the host has taken so far
    frames,     \* number of requests the host has started
    DR,         \* the physical Data register shared by the logical ports
    PS,         \* the physical Pin-State register
    ports,      \* port descriptors: ports["A"], ports["B"], each [mask, shift, width]
    lastW,      \* history: the value last passed to Write of each port, or -1
    call,       \* history: the last event on the port: a driver call [op, p, arg, ret]
                \* or a hardware event (op "PinChange", "Interrupt")
    INTSTAT,    \* the physical interrupt status register of the port
    hw,         \* the silicon: [clearOnRead], whether a read of INTSTAT clears it
    wr,         \* Write calls in progress: wr[p] = [pc, staticBits, value]
    overlap,    \* history: some Write ran between the two steps of another
    twin,       \* the vessel of a second run of the bridge
    phase,      \* position of the two runs compared with each other
    cfg,        \* a Pins component's build: [psoc5a, portnum, mask, intstat]
    api         \* the functions the build defines for the component

frameVars == <<binding, compiled, vessel, vessel_in, pc, got, rx, WR_buf, wrIdx,
               wrCmplt, tx, rdIdx, rdCmplt, req, resp, out, frames>>
portVars  == <<DR, PS, ports, lastW, call>>
extVars   == <<INTSTAT, hw, wr, overlap, twin, phase, cfg, api>>
vars      == <<frameVars, portVars, extVars>>

(***************************************************************************)
(* C integer arithmetic on unsigned values                                 *)
(***************************************************************************)
Pow2(n) == 2 ^ n

\* x & y
RECURSIVE And(_, _)
And(x, y) ==
    IF x = 0 \/ y = 0 THEN 0
    ELSE (x % 2) * (y % 2) + 2 * And(x \div 2, y \div 2)

\* x | y
RECURSIVE Or(_, _)
Or(x, y) ==
    IF x = 0 THEN y
    ELSE IF y = 0 THEN x
    ELSE (IF x % 2 = 1 \/ y % 2 = 1 THEN 1 ELSE 0) + 2 * Or(x \div 2, y \div 2)

\* x || y: 1 when either operand is non-zero, else 0
LOr(x, y) == IF x # 0 \/ y # 0 THEN 1 ELSE 0

\* x >> n and x << n on unbounded integers; the casts below give the width
Shr(x, n) == x \div Pow2(n)
Shl(x, n) == x * Pow2(n)

\* (uint8) x, (uint16) x
U8(x)  == x % 256
U16(x) == x % 65536

\* (uint8)(~m) for an 8-bit m
Not8(m) == 255 - m

\* A uint32 is kept as its two 16-bit halves: the value is hi * 2^16 + lo.
W32(h, l) == [hi |-> h, lo |-> l]

\* x & m on uint32
And32(x, m) == W32(And(x.hi, m.hi), And(x.lo, m.lo))

\* x >> n on uint32, 0 <= n < 32
Shr32(x, n) ==
    IF n >= 16 THEN W32(0, Shr(x.hi, n - 16))
    ELSE W32(Shr(x.hi, n), Shr(x.lo, n) + Shl(x.hi % Pow2(n), 16 - n))

\* (uint8) x for a uint32 x
Low8(x) == x.lo % 256

(***************************************************************************)
(* Python.h (addresses of the dispatch table).  The header is not among    *)
(* the sources; GPIO_REGISTER is the address the frame example uses, and   *)
(* of the two reserved addresses only their being distinct 8-bit case      *)
(* labels matters.                                                         *)
(***************************************************************************)
GPIO_REGISTER == 32
CHECK_BUILD   == 254
RESET_ADDRESS == 255

\* The labels of the conditionally compiled peripheral cases a build may hold.
PeripheralCases == {1, 2}

(***************************************************************************)
(* Python_parser                                                           *)
(***************************************************************************)
\* case GPIO_REGISTER: cmd 0x01 reads bit 1 instead of bit 0
ParserGpio_WrongBit(v) ==
    LET temp_data == U16(v.dat)
        v1 == [v EXCEPT !.pin  = And(Shr(temp_data, 1), 7),
                        !.port = And(Shr(temp_data, 4), 15)]
    IN  CASE v.cmd = 1 -> [v1 EXCEPT !.dat = And(temp_data, 2)]
          [] v.cmd = 3 -> [v1 EXCEPT !.dat = And(Shr(temp_data, 8), 15)]
          [] OTHER     -> v1

\* case GPIO_REGISTER: cmd 0x03 masks without shifting
ParserGpio_NoShift(v) ==
    LET temp_data == U16(v.dat)
        v1 == [v EXCEPT !.pin  = And(Shr(temp_data, 1), 7),
                        !.port = And(Shr(temp_data, 4), 15)]
    IN  CASE v.cmd = 1 -> [v1 EXCEPT !.dat = And(temp_data, 1)]
          [] v.cmd = 3 -> [v1 EXCEPT !.dat = And(temp_data, 15)]
          [] OTHER     -> v1

\* case GPIO_REGISTER: pin taken from bits [0:2], port from bits [3:6]
ParserGpio_PinOffByOne(v) ==
    LET temp_data == U16(v.dat)
        v1 == [v EXCEPT !.pin  = And(temp_data, 7),
                        !.port = And(Shr(temp_data, 3), 15)]
    IN  CASE v.cmd = 1 -> [v1 EXCEPT !.dat = And(temp_data, 1)]
          [] v.cmd = 3 -> [v1 EXCEPT !.dat = And(Shr(temp_data, 8), 15)]
          [] OTHER     -> v1

\* case GPIO_REGISTER: the inner switch has a default that zeroes dat
ParserGpio_DefaultClears(v) ==
    LET temp_data == U16(v.dat)
        v1 == [v EXCEPT !.pin  = And(Shr(temp_data, 1), 7),
                        !.port = And(Shr(temp_data, 4), 15)]
    IN  CASE v.cmd = 1 -> [v1 EXCEPT !.dat = And(temp_data, 1)]
          [] v.cmd = 3 -> [v1 EXCEPT !.dat = And(Shr(temp_data, 8), 15)]
          [] OTHER     -> [v1 EXCEPT !.dat = 0]

\* Python.c:134-145, case GPIO_REGISTER
ParserGpio(v) ==
    LET temp_data == U16(v.dat)
        v1 == [v EXCEPT !.pin  = And(Shr(temp_data, 1), 7),
                        !.port = And(Shr(temp_data, 4), 15)]
    IN  CASE v.cmd = 1 -> [v1 EXCEPT !.dat = And(temp_data, 1)]
          [] v.cmd = 3 -> [v1 EXCEPT !.dat = And(Shr(temp_data, 8), 15)]
          [] OTHER     -> v1

\* the switch has a default case that runs the GPIO handler
Python_parser_DefaultGpio(v, comp) ==
    IF v.addr \in comp THEN v
    ELSE IF v.addr = GPIO_REGISTER THEN ParserGpio(v)
    ELSE IF v.addr = CHECK_BUILD THEN v
    ELSE IF v.addr = RESET_ADDRESS THEN v
    ELSE ParserGpio(v)

\* the reset address wipes the vessel
Python_parser_ResetClears(v, comp) ==
    IF v.addr \in comp THEN v
    ELSE IF v.addr = GPIO_REGISTER THEN ParserGpio(v)
    ELSE IF v.addr = CHECK_BUILD THEN v
    ELSE IF v.addr = RESET_ADDRESS
         THEN [v EXCEPT !.cmd = 0, !.dat = 0, !.pin = 0, !.port = 0]
    ELSE v

\* Python.c:22-152: switch(addr); comp holds the peripheral cases compiled in,
\* each of which is `break` alone; an address with no case leaves the switch.
Python_parser(v, comp) ==
    IF v.addr \in comp THEN v
    ELSE IF v.addr = GPIO_REGISTER THEN ParserGpio(v)
    ELSE IF v.addr = CHECK_BUILD THEN v
    ELSE IF v.addr = RESET_ADDRESS THEN v
    ELSE v

(***************************************************************************)
(* Python_getData and Python_sendData                                      *)
(***************************************************************************)
\* the store ORs the new data into what the vessel held
StoreFrame_Sticky(v, g) ==
    [v EXCEPT !.addr = g[1], !.cmd = g[2],
              !.dat = LOr(LOr(Shl(g[4], 8), g[3]), v.cmd)]

\* Python.c:213-215: the locals addr, cmd, dat_lo, dat_hi are g[1..4]
StoreFrame(v, g) ==
    [v EXCEPT !.addr = g[1], !.cmd = g[2], !.dat = LOr(Shl(g[4], 8), g[3])]

\* the bytes in most-significant-first order
SendBytes_BigEndian(dat) ==
    LET out_hi     == Low8(Shr32(And32(dat, W32(65280, 0)), 24))
        out_mid_hi == Low8(Shr32(And32(dat, W32(255, 0)), 16))
        out_mid_lo == Low8(Shr32(And32(dat, W32(0, 65280)), 8))
        out_lo     == Low8(And32(dat, W32(0, 255)))
    IN  <<out_hi, out_mid_hi, out_mid_lo, out_lo>>

\* Python.c:228-231 and the order the bytes reach the transport:
\* SPI  (239-241) WriteTxDataZero(out_lo), PutArray({out_mid_lo, out_mid_hi, out_hi});
\* I2C  (248-251) RD_buf[0..3] = out_lo, out_mid_lo, out_mid_hi, out_hi.
\* The masks 0xFF000000, 0x00FF0000, 0x0000FF00, 0x000000FF are written in halves.
SendBytes(dat) ==
    LET out_hi     == Low8(Shr32(And32(dat, W32(65280, 0)), 24))
        out_mid_hi == Low8(Shr32(And32(dat, W32(255, 0)), 16))
        out_mid_lo == Low8(Shr32(And32(dat, W32(0, 65280)), 8))
        out_lo     == Low8(And32(dat, W32(0, 255)))
    IN  <<out_lo, out_mid_lo, out_mid_hi, out_hi>>

(***************************************************************************)
(* The digital port driver (GPIO_12_7.c and the headers of its siblings)   *)
(***************************************************************************)
\* width of a reg8 register
RegBits == 8

\* GPIO_x__MASK and GPIO_x__SHIFT of a logical port owning `width` bits from
\* bit `shift` up (cyfitter.h gives one such pair per port)
Descriptor(shift, width) ==
    [mask |-> Shl(Pow2(width) - 1, shift), shift |-> shift, width |-> width]

Descriptors ==
    { Descriptor(s, w) : s \in 0..(RegBits - 1), w \in 1..RegBits } \cap
    { d \in [mask : 0..(Pow2(RegBits) - 1), shift : 0..(RegBits - 1), width : 1..RegBits] :
        d.shift + d.width <= RegBits }

Disjoint(a, b) == And(a.mask, b.mask) = 0

\* Write that stores the shifted value alone, dropping the other ports' bits
GPIO_Write_NoStaticBits(d, dr, value) ==
    And(U8(Shl(value, d.shift)), d.mask)

\* Write that masks the value without shifting it into place
GPIO_Write_NoShift(d, dr, value) ==
    LET staticBits == And(dr, Not8(d.mask))
    IN  Or(staticBits, And(U8(value), d.mask))

\* Write that ORs the new bits into the register without clearing its own
GPIO_Write_OrOnly(d, dr, value) ==
    Or(dr, And(U8(Shl(value, d.shift)), d.mask))

\* GPIO_12_7.c:39-43 GPIO_12_7_Write: the new content of the Data register dr
GPIO_Write(d, dr, value) ==
    LET staticBits == And(dr, Not8(d.mask))
    IN  Or(staticBits, And(U8(Shl(value, d.shift)), d.mask))

\* GPIO_12_7.c:113-116 GPIO_12_7_ReadDataReg
GPIO_ReadDataReg(d, dr) == Shr(And(dr, d.mask), d.shift)

\* the read step keeps nothing of the register
GPIO_Write_staticBits_None(d, dr) == 0

\* GPIO_12_7.c:41, the read step of GPIO_12_7_Write:
\* staticBits = DR & ~MASK, held in a local
GPIO_Write_staticBits(d, dr) == And(dr, Not8(d.mask))

\* GPIO_12_7.c:42, the write step of GPIO_12_7_Write:
\* DR = staticBits | ((value << SHIFT) & MASK)
GPIO_Write_store(d, staticBits, value) ==
    Or(staticBits, And(U8(Shl(value, d.shift)), d.mask))

\* Read that right-justifies the register without masking it first
GPIO_Read_NoMask(d, ps) == Shr(ps, d.shift)

\* GPIO_12_7.c:93-96 GPIO_12_7_Read: from the Pin-State register ps
GPIO_Read(d, ps) == Shr(And(ps, d.mask), d.shift)

\* ClearInterrupt that masks the status without right-justifying it
GPIO_ClearInterrupt_NoShift(d, intstat) == And(intstat, d.mask)

\* GPIO_12_7.c:136-139 GPIO_12_7_ClearInterrupt: the value returned for the
\* content intstat of the interrupt status register; the function is this
\* one read and stores nothing
GPIO_ClearInterrupt(d, intstat) == Shr(And(intstat, d.mask), d.shift)

(***************************************************************************)
(* Bounds and input samples of the request/response loop                   *)
(***************************************************************************)
\* requests the host starts in one run
MaxFrames == 2

\* the byte values the host puts on the bus
ByteSamples == {0, 1, 18, 32}

\* the 32-bit values Python_sendData is called with
ResponseSamples ==
    {W32(0, 0), W32(4660, 22136), W32(65535, 65535), W32(32768, 256)}

\* length of a frame, and of the I2C buffers (I2C_BUFFER_SIZE of Python.h)
FrameLen == 4

ZeroVessel == [addr |-> 0, cmd |-> 0, dat |-> 0, pin |-> 0, port |-> 0]

\* the vessel the caller hands in before the first frame
InitVessels == {ZeroVessel, [addr |-> 0, cmd |-> 0, dat |-> 0, pin |-> 5, port |-> 9]}

\* the state of what a specification leaves alone
ExtIdle ==
    /\ INTSTAT = 0
    /\ hw = [clearOnRead |-> TRUE]
    /\ wr = [p \in {"A", "B"} |-> [pc |-> "idle", staticBits |-> 0, value |-> 0]]
    /\ overlap = FALSE
    /\ twin = ZeroVessel
    /\ phase = "idle"
    /\ cfg = [psoc5a |-> FALSE, portnum |-> 0, mask |-> 1, intstat |-> FALSE]
    /\ api = {}

PortIdle ==
    /\ DR = 0
    /\ PS = 0
    /\ ports = [p \in {"A", "B"} |->
                  [mask |-> Pow2(IF p = "A" THEN 0 ELSE 1),
                   shift |-> IF p = "A" THEN 0 ELSE 1, width |-> 1]]
    /\ lastW = [p \in {"A", "B"} |-> -1]
    /\ call = [op |-> "none", p |-> "A", arg |-> 0, ret |-> 0]

Init ==
    /\ binding \in {"SPI", "I2C"}
    /\ compiled = PeripheralCases
    /\ vessel \in InitVessels
    /\ vessel_in = vessel
    /\ pc = "getData"
    /\ got = <<>>
    /\ rx = <<>>
    /\ WR_buf = [i \in 0..(FrameLen - 1) |-> 0]
    /\ wrIdx = 0
    /\ wrCmplt = FALSE
    /\ tx = <<>>
    /\ rdIdx = 0
    /\ rdCmplt = FALSE
    /\ req = <<>>
    /\ resp = W32(0, 0)
    /\ out = <<>>
    /\ frames = 0
    /\ PortIdle
    /\ ExtIdle

(***************************************************************************)
(* The host                                                                *)
(***************************************************************************)
\* the host may clock request bytes while the bridge waits in Python_getData
HostMaySend == pc = "getData" /\ frames < MaxFrames /\ Len(req) < FrameLen

\* SPI: the host shifts one byte into the slave's Rx buffer
HostSpiSend(b) ==
    /\ binding = "SPI"
    /\ HostMaySend
    /\ rx' = Append(rx, b)
    /\ req' = Append(req, b)
    /\ UNCHANGED <<binding, compiled, vessel, vessel_in, pc, got, WR_buf, wrIdx,
                   wrCmplt, tx, rdIdx, rdCmplt, resp, out, frames>>
    /\ UNCHANGED <<portVars, extVars>>

\* I2C: the host writes one byte of a write transfer into WR_buf
HostI2cWrite(b) ==
    /\ binding = "I2C"
    /\ HostMaySend
    /\ ~wrCmplt
    /\ wrIdx < FrameLen
    /\ WR_buf' = [WR_buf EXCEPT ![wrIdx] = b]
    /\ wrIdx' = wrIdx + 1
    /\ req' = Append(req, b)
    /\ UNCHANGED <<binding, compiled, vessel, vessel_in, pc, got, rx,
                   wrCmplt, tx, rdIdx, rdCmplt, resp, out, frames>>
    /\ UNCHANGED <<portVars, extVars>>

\* I2C: the host ends its write transfer (after one byte or more)
HostI2cWriteStop ==
    /\ binding = "I2C"
    /\ pc = "getData"
    /\ wrIdx > 0
    /\ ~wrCmplt
    /\ wrCmplt' = TRUE
    /\ UNCHANGED <<binding, compiled, vessel, vessel_in, pc, got, rx, WR_buf, wrIdx,
                   tx, rdIdx, rdCmplt, req, resp, out, frames>>
    /\ UNCHANGED <<portVars, extVars>>

\* the host takes the next response byte (SPI: shifts it out; I2C: reads RD_buf)
HostRead ==
    /\ pc = "sendWait"
    /\ ~rdCmplt
    /\ rdIdx < Len(tx)
    /\ out' = Append(out, tx[rdIdx + 1])
    /\ rdIdx' = rdIdx + 1
    /\ UNCHANGED <<binding, compiled, vessel, vessel_in, pc, got, rx, WR_buf, wrIdx,
                   wrCmplt, tx, rdCmplt, req, resp, frames>>
    /\ UNCHANGED <<portVars, extVars>>

\* I2C: the host ends its read transfer (after one byte or more)
HostI2cReadStop ==
    /\ binding = "I2C"
    /\ pc = "sendWait"
    /\ rdIdx > 0
    /\ ~rdCmplt
    /\ rdCmplt' = TRUE
    /\ UNCHANGED <<binding, compiled, vessel, vessel_in, pc, got, rx, WR_buf, wrIdx,
                   wrCmplt, tx, rdIdx, req, resp, out, frames>>
    /\ UNCHANGED <<portVars, extVars>>

(***************************************************************************)
(* The bridge: Python_getData, Python_parser, Python_sendData in turn      *)
(***************************************************************************)
\* Python.c:187-194 (SPI): one pass of a wait loop followed by ReadRxData();
\* the fourth byte read, lines 213-215 store the frame and the call returns.
GetDataSpi ==
    /\ binding = "SPI"
    /\ pc = "getData"
    /\ rx # <<>>
    /\ rx' = Tail(rx)
    /\ LET g == Append(got, Head(rx))
       IN  IF Len(g) = FrameLen
           THEN /\ vessel' = StoreFrame(vessel, g)
                /\ got' = g
                /\ pc' = "parser"
           ELSE /\ got' = g
                /\ UNCHANGED <<vessel, pc>>
    /\ UNCHANGED <<binding, compiled, vessel_in, WR_buf, wrIdx, wrCmplt, tx, rdIdx,
                   rdCmplt, req, resp, out, frames>>
    /\ UNCHANGED <<portVars, extVars>>

\* Python.c:198-209 (I2C): past both wait loops (write buffer not empty, write
\* complete), WR_buf[0..3] are read, the write status and buffer are cleared,
\* and lines 213-215 store the frame.
GetDataI2c ==
    /\ binding = "I2C"
    /\ pc = "getData"
    /\ wrIdx # 0
    /\ wrCmplt
    /\ LET g == <<WR_buf[0], WR_buf[1], WR_buf[2], WR_buf[3]>>
       IN  /\ got' = g
           /\ vessel' = StoreFrame(vessel, g)
    /\ wrCmplt' = FALSE
    /\ wrIdx' = 0
    /\ pc' = "parser"
    /\ UNCHANGED <<binding, compiled, vessel_in, rx, WR_buf, tx, rdIdx, rdCmplt,
                   req, resp, out, frames>>
    /\ UNCHANGED <<portVars, extVars>>

\* Python.c:22-152 called on the vessel Python_getData filled
Parser ==
    /\ pc = "parser"
    /\ vessel_in' = vessel
    /\ vessel' = Python_parser(vessel, compiled)
    /\ pc' = "sendData"
    /\ UNCHANGED <<binding, compiled, got, rx, WR_buf, wrIdx, wrCmplt, tx, rdIdx,
                   rdCmplt, req, resp, out, frames>>
    /\ UNCHANGED <<portVars, extVars>>

\* Python.c:226-251: the four bytes are handed to the transport (SPI: the Tx and
\* Rx buffers are cleared first; I2C: after the wait for an idle read buffer),
\* and the call goes on to wait for the host.
SendData(dat) ==
    /\ pc = "sendData"
    /\ binding = "I2C" => rdIdx = 0
    /\ resp' = dat
    /\ tx' = SendBytes(dat)
    /\ rx' = IF binding = "SPI" THEN <<>> ELSE rx
    /\ rdIdx' = 0
    /\ out' = <<>>
    /\ pc' = "sendWait"
    /\ UNCHANGED <<binding, compiled, vessel, vessel_in, got, WR_buf, wrIdx, wrCmplt,
                   rdCmplt, req, frames>>
    /\ UNCHANGED <<portVars, extVars>>

\* Python.c:243 (SPI: SPIS_1_STS_SPI_DONE seen) and 254-256 (I2C: RD_CMPLT seen,
\* read buffer and status cleared): Python_sendData returns.
SendDone ==
    /\ pc = "sendWait"
    /\ IF binding = "SPI" THEN rdIdx = Len(tx) ELSE rdCmplt
    /\ rdIdx' = 0
    /\ rdCmplt' = FALSE
    /\ pc' = "getData"
    /\ got' = <<>>
    /\ req' = <<>>
    /\ resp' = W32(0, 0)
    /\ out' = <<>>
    /\ vessel_in' = vessel
    /\ frames' = frames + 1
    /\ UNCHANGED <<binding, compiled, vessel, rx, WR_buf, wrIdx, wrCmplt, tx>>
    /\ UNCHANGED <<portVars, extVars>>

Next ==
    \/ \E b \in ByteSamples : HostSpiSend(b)
    \/ \E b \in ByteSamples : HostI2cWrite(b)
    \/ HostI2cWriteStop
    \/ HostRead
    \/ HostI2cReadStop
    \/ GetDataSpi
    \/ GetDataI2c
    \/ Parser
    \/ \E dat \in ResponseSamples : SendData(dat)
    \/ SendDone

Spec == Init /\ [][Next]_vars

(***************************************************************************)
(* SpecParser: Python_parser called once on a vessel of any content        *)
(***************************************************************************)
\* dat takes every value of 0..MaxDat (bits [0:11], all the handler reads) ...
MaxDat == 4095

\* ... and these values with bits [12:15] set
HighDatSamples == {4096, 32768, 42495, 61440, 65535}

DatInputs == (0..MaxDat) \cup HighDatSamples

CmdSamples == {0, 1, 2, 3, 255}

\* addresses with no case of the switch, in any build
UnknownAddrSamples == {0, 31, 33, 127}

AddrSamples ==
    {GPIO_REGISTER, CHECK_BUILD, RESET_ADDRESS} \cup PeripheralCases
        \cup UnknownAddrSamples

\* pin and port as an earlier call left them
PriorPinPort == {<<0, 0>>, <<5, 9>>}

ParserInputs ==
    { [addr |-> a, cmd |-> c, dat |-> d, pin |-> pp[1], port |-> pp[2]] :
        a \in {GPIO_REGISTER}, c \in CmdSamples, d \in DatInputs, pp \in PriorPinPort }
    \cup
    { [addr |-> a, cmd |-> c, dat |-> d, pin |-> pp[1], port |-> pp[2]] :
        a \in AddrSamples, c \in CmdSamples, d \in HighDatSamples \cup {0, 1, 18},
        pp \in PriorPinPort }

InitParser ==
    /\ binding = "SPI"
    /\ compiled \in {{}, PeripheralCases}
    /\ vessel \in ParserInputs
    /\ vessel_in = vessel
    /\ pc = "parser"
    /\ got = <<>>
    /\ rx = <<>>
    /\ WR_buf = [i \in 0..(FrameLen - 1) |-> 0]
    /\ wrIdx = 0
    /\ wrCmplt = FALSE
    /\ tx = <<>>
    /\ rdIdx = 0
    /\ rdCmplt = FALSE
    /\ req = <<>>
    /\ resp = W32(0, 0)
    /\ out = <<>>
    /\ frames = 0
    /\ PortIdle
    /\ ExtIdle

NextParser == Parser

SpecParser == InitParser /\ [][NextParser]_vars

\* the last step was a return of Python_parser
Returned == pc = "sendData"

\* the address has no case in this build's switch
NoCase(a) ==
    /\ a \notin compiled
    /\ a \notin {GPIO_REGISTER, CHECK_BUILD, RESET_ADDRESS}

\* bit i of x
Bit(x, i) == (x \div Pow2(i)) % 2

(***************************************************************************)
(* Claims about the frame decoder, the encoder and the dispatcher          *)
(***************************************************************************)

\* C1: when Python_getData returns after the host delivered the 4 bytes
\* [b0, b1, b2, b3], the vessel holds addr = b0, cmd = b1 and
\* dat = (b3 << 8) | b2.  (Stated as the claim has it; the code stores
\* (dat_hi << 8) || dat_lo, which is 0 or 1.)
C1_GetDataDecodes ==
    (pc = "parser" /\ Len(req) = FrameLen) =>
        /\ vessel.addr = req[1]
        /\ vessel.cmd = req[2]
        /\ vessel.dat = req[4] * 256 + req[3]

\* C2: once Python_sendData has handed its bytes to the transport there are
\* exactly 4 of them, least-significant byte of the 32-bit value first, on the
\* SPI and on the I2C binding alike, and the host takes them in that order.
C2_SendOrder ==
    pc = "sendWait" =>
        /\ Len(tx) = 4
        /\ tx[1] = resp.lo % 256
        /\ tx[2] = resp.lo \div 256
        /\ tx[3] = resp.hi % 256
        /\ tx[4] = resp.hi \div 256
        /\ out = SubSeq(tx, 1, rdIdx)
        /\ (resp = W32(4660, 22136) => tx = <<120, 86, 52, 18>>)

\* 0x12345678 has been sent over SPI and the host has received 78 56 34 12
C2_Witness ==
    /\ binding = "SPI"
    /\ pc = "sendWait"
    /\ resp = W32(4660, 22136)
    /\ out = <<120, 86, 52, 18>>

\* C6: a call of Python_parser with an address that has no case in the build's
\* switch returns with every field of the vessel as it was on entry, and the
\* call returns for every vessel (no input leaves it without an outcome).
C6_UnknownAddrNoOp ==
    /\ (Returned /\ NoCase(vessel_in.addr)) => vessel = vessel_in
    /\ pc = "parser" => ENABLED Parser

\* address 0x7F, no peripheral compiled in, dat = 0xFFFF: nothing changed
C6_Witness ==
    /\ Returned
    /\ compiled = {}
    /\ vessel_in.addr = 127
    /\ vessel_in.dat = 65535
    /\ vessel_in.pin = 5
    /\ vessel = vessel_in

\* C7: for a frame addressed to GPIO_REGISTER, whatever the command,
\* Python_parser leaves pin = bits [1:3] and port = bits [4:7] of the dat the
\* frame carried on entry, so pin is in 0..7 and port in 0..15.
C7_GpioPinPort ==
    (Returned /\ vessel_in.addr = GPIO_REGISTER) =>
        /\ vessel.pin = (vessel_in.dat \div 2) % 8
        /\ vessel.port = (vessel_in.dat \div 16) % 16
        /\ vessel.pin \in 0..7
        /\ vessel.port \in 0..15

\* dat = 0x0012 gives pin = 1 and port = 1, over an earlier pin 5 and port 9
C7_Witness ==
    /\ Returned
    /\ vessel_in = [addr |-> GPIO_REGISTER, cmd |-> 1, dat |-> 18, pin |-> 5, port |-> 9]
    /\ vessel.pin = 1
    /\ vessel.port = 1

\* C8: for address GPIO_REGISTER and command 0x01, Python_parser leaves in dat
\* bit 0 of the dat on entry, 0 or 1.
C8_GpioCmd1 ==
    (Returned /\ vessel_in.addr = GPIO_REGISTER /\ vessel_in.cmd = 1) =>
        /\ vessel.dat = vessel_in.dat % 2
        /\ vessel.dat \in {0, 1}

\* dat = 0x0012 yields 0
C8_Witness ==
    /\ Returned
    /\ vessel_in.addr = GPIO_REGISTER
    /\ vessel_in.cmd = 1
    /\ vessel_in.dat = 18
    /\ vessel.dat = 0

\* C9: for address GPIO_REGISTER and command 0x03, Python_parser leaves in dat
\* bits [8:11] of the dat on entry, right-justified.
C9_GpioCmd3 ==
    (Returned /\ vessel_in.addr = GPIO_REGISTER /\ vessel_in.cmd = 3) =>
        /\ vessel.dat = (vessel_in.dat \div 256) % 16
        /\ vessel.dat \in 0..15

\* dat = 0xA5FF (bits [12:15] and [0:7] set besides) yields 5
C9_Witness ==
    /\ Returned
    /\ vessel_in.addr = GPIO_REGISTER
    /\ vessel_in.cmd = 3
    /\ vessel_in.dat = 42495
    /\ vessel.dat = 5

\* C10, as claimed: for address GPIO_REGISTER and a command other than 0x01 and
\* 0x03, every field of the vessel is as it was on entry.
C10_GpioOtherCmdAllFields ==
    (Returned /\ vessel_in.addr = GPIO_REGISTER /\ vessel_in.cmd \notin {1, 3}) =>
        vessel = vessel_in

\* C10, amended: for address GPIO_REGISTER and a command other than 0x01 and
\* 0x03, addr, cmd and dat are as they were on entry, while pin and port are
\* set from the dat on entry as for every GPIO frame.
C10_GpioOtherCmdFrame ==
    (Returned /\ vessel_in.addr = GPIO_REGISTER /\ vessel_in.cmd \notin {1, 3}) =>
        /\ vessel.addr = vessel_in.addr
        /\ vessel.cmd = vessel_in.cmd
        /\ vessel.dat = vessel_in.dat
        /\ vessel.pin = (vessel_in.dat \div 2) % 8
        /\ vessel.port = (vessel_in.dat \div 16) % 16

\* command 0x02, dat = 0x0012: dat is kept, pin and port go from 5, 9 to 1, 1
C10_Witness ==
    /\ Returned
    /\ vessel_in = [addr |-> GPIO_REGISTER, cmd |-> 2, dat |-> 18, pin |-> 5, port |-> 9]
    /\ vessel = [addr |-> GPIO_REGISTER, cmd |-> 2, dat |-> 18, pin |-> 1, port |-> 1]

\* C15: a call of Python_parser on a frame addressed to CHECK_BUILD or to
\* RESET_ADDRESS, whatever its cmd and dat, leaves every field of the vessel as
\* it was and changes no register, no buffer and no transport state.
C15_ReservedNoOp ==
    [][(pc = "parser" /\ vessel.addr \in {CHECK_BUILD, RESET_ADDRESS}) =>
         /\ vessel' = vessel
         /\ UNCHANGED <<DR, PS, INTSTAT, rx, tx, WR_buf, wrIdx, wrCmplt, rdIdx, rdCmplt>>
         /\ UNCHANGED <<portVars, extVars>>]_vars

\* RESET_ADDRESS with command 0x01 and dat 0xFFFF: the GPIO handler would
\* have rewritten dat, pin and port; the vessel is as it was
C15_Witness ==
    /\ Returned
    /\ vessel_in = [addr |-> RESET_ADDRESS, cmd |-> 1, dat |-> 65535, pin |-> 5, port |-> 9]
    /\ vessel = vessel_in

(***************************************************************************)
(* SpecPort: two logical ports A and B on one Data register, each call     *)
(* of the driver running to completion before the next                     *)
(***************************************************************************)
\* Write is called with every value of 0..MaxValue ...
MaxValue == 2

\* ... and with these values, wider than any port
WideValueSamples == {170, 255}

WriteValues == (0..MaxValue) \cup WideValueSamples

\* the widest sibling B that shares the register with A
MaxSiblingWidth == 1

\* the content of the Data register before the first call
DRInit == {0, 90, 165}

PortNames == {"A", "B"}

PortPairs ==
    { [A |-> a, B |-> b] : a \in Descriptors,
        b \in {d \in Descriptors : d.width <= MaxSiblingWidth} } \cap
    { pp \in [A : Descriptors, B : Descriptors] : Disjoint(pp.A, pp.B) }

FrameIdle ==
    /\ binding = "SPI"
    /\ compiled = {}
    /\ vessel = ZeroVessel
    /\ vessel_in = ZeroVessel
    /\ pc = "idle"
    /\ got = <<>>
    /\ rx = <<>>
    /\ WR_buf = [i \in 0..(FrameLen - 1) |-> 0]
    /\ wrIdx = 0
    /\ wrCmplt = FALSE
    /\ tx = <<>>
    /\ rdIdx = 0
    /\ rdCmplt = FALSE
    /\ req = <<>>
    /\ resp = W32(0, 0)
    /\ out = <<>>
    /\ frames = 0

InitPort ==
    /\ FrameIdle
    /\ DR \in DRInit
    /\ PS = 0
    /\ ports \in PortPairs
    /\ lastW = [p \in PortNames |-> -1]
    /\ call = [op |-> "none", p |-> "A", arg |-> 0, ret |-> 0]
    /\ ExtIdle

\* GPIO_12_7.c:39-43: port p's Write(value), read and write-back in one step
Write(p, value) ==
    /\ DR' = GPIO_Write(ports[p], DR, value)
    /\ lastW' = [lastW EXCEPT ![p] = value]
    /\ call' = [op |-> "Write", p |-> p, arg |-> value, ret |-> 0]
    /\ UNCHANGED <<PS, ports>>
    /\ UNCHANGED <<frameVars, extVars>>

\* GPIO_12_7.c:113-116: port p's ReadDataReg()
ReadDataReg(p) ==
    /\ call' = [op |-> "ReadDataReg", p |-> p, arg |-> 0,
                ret |-> GPIO_ReadDataReg(ports[p], DR)]
    /\ UNCHANGED <<DR, PS, ports, lastW>>
    /\ UNCHANGED <<frameVars, extVars>>

NextPort ==
    \/ \E p \in PortNames, value \in WriteValues : Write(p, value)
    \/ \E p \in PortNames : ReadDataReg(p)

SpecPort == InitPort /\ [][NextPort]_vars

\* the other port of the pair
Other(p) == IF p = "A" THEN "B" ELSE "A"

\* the right-justified field of register value r that descriptor d owns
Field(d, r) == (r \div Pow2(d.shift)) % Pow2(d.width)

(***************************************************************************)
(* Claims about the digital port driver                                    *)
(***************************************************************************)

\* C3: a Write(value) of a port, whatever the prior content r of the Data
\* register and whatever the value, leaves the register at
\* (r & ~MASK) | ((value << SHIFT) & MASK): every bit outside the port's mask
\* is as it was in r, and every bit inside is the value's bit SHIFT places down.
C3_WriteFrame ==
    [][ call'.op = "Write" =>
          LET d == ports[call'.p]
          IN  \A i \in 0..(RegBits - 1) :
                Bit(DR', i) = IF Bit(d.mask, i) = 1
                              THEN Bit(call'.arg, i - d.shift)
                              ELSE Bit(DR, i) ]_vars

\* port A owns bits [1:2]; Write(0xFF) on a register that held 0xA5 leaves
\* 0xA7: bits 0 and [3:7] kept, bits [1:2] set
C3_Witness ==
    /\ call = [op |-> "Write", p |-> "A", arg |-> 255, ret |-> 0]
    /\ ports.A = Descriptor(1, 2)
    /\ lastW.B = -1
    /\ DR = 167

\* C4: for every contiguous mask of `width` ones at `shift`, every prior
\* register content and every value v, ReadDataReg called right after Write(v)
\* on the same port returns v & ((1 << width) - 1), hence v when v < 2^width.
C4_RoundTrip ==
    [][ (call.op = "Write" /\ call'.op = "ReadDataReg" /\ call'.p = call.p) =>
          /\ call'.ret = call.arg % Pow2(ports[call.p].width)
          /\ call.arg < Pow2(ports[call.p].width) => call'.ret = call.arg ]_vars

\* port A owns bits [5:7]; ReadDataReg after Write(0xAA) returns 0xAA & 7 = 2
C4_Witness ==
    /\ call = [op |-> "ReadDataReg", p |-> "A", arg |-> 0, ret |-> 2]
    /\ ports.A = Descriptor(5, 3)
    /\ lastW.A = 170

\* C5: with ports A and B on one Data register with disjoint masks and every
\* Write running to completion, each port's ReadDataReg returns the masked
\* value of the last Write made to that port, and a Write to one port leaves
\* the value ReadDataReg returns for the other as it was.
C5_NonInterference ==
    /\ [](\A p \in PortNames :
            /\ lastW[p] # -1 =>
                 Field(ports[p], DR) = lastW[p] % Pow2(ports[p].width)
            /\ (call.op = "ReadDataReg" /\ call.p = p) =>
                 call.ret = Field(ports[p], DR))
    /\ [][ call'.op = "Write" =>
             Field(ports[Other(call'.p)], DR') = Field(ports[Other(call'.p)], DR) ]_vars

\* from register 0, Write_A(1) then Write_B(1) give 0b11, and A still reads 1
C5_Witness ==
    /\ ports.A = Descriptor(0, 1)
    /\ ports.B = Descriptor(1, 1)
    /\ lastW = [A |-> 1, B |-> 1]
    /\ DR = 3
    /\ call = [op |-> "ReadDataReg", p |-> "A", arg |-> 0, ret |-> 1]

(***************************************************************************)
(* SpecTwin: two runs of the bridge that start alike, handle earlier       *)
(* frames of their own and then receive the same frame                     *)
(***************************************************************************)
TwinBytes == {0, 18, 32}

TwinFrames == { <<a, c, l, h>> : a \in TwinBytes, c \in TwinBytes,
                                 l \in TwinBytes, h \in TwinBytes }

\* Python_getData (Python.c:213-215) then Python_parser on the same vessel,
\* for a frame g the host delivered whole
HandleFrame(v, g) == Python_parser(StoreFrame(v, g), compiled)

InitTwin ==
    /\ binding = "SPI"
    /\ compiled = PeripheralCases
    /\ vessel \in InitVessels
    /\ vessel_in = vessel
    /\ pc = "idle"
    /\ got = <<>>
    /\ rx = <<>>
    /\ WR_buf = [i \in 0..(FrameLen - 1) |-> 0]
    /\ wrIdx = 0
    /\ wrCmplt = FALSE
    /\ tx = <<>>
    /\ rdIdx = 0
    /\ rdCmplt = FALSE
    /\ req = <<>>
    /\ resp = W32(0, 0)
    /\ out = <<>>
    /\ frames = 0
    /\ PortIdle
    /\ INTSTAT = 0
    /\ hw = [clearOnRead |-> TRUE]
    /\ wr = [p \in {"A", "B"} |-> [pc |-> "idle", staticBits |-> 0, value |-> 0]]
    /\ overlap = FALSE
    /\ twin = vessel
    /\ phase = "earlier"
    /\ cfg = [psoc5a |-> FALSE, portnum |-> 0, mask |-> 1, intstat |-> FALSE]
    /\ api = {}

\* run r (1: vessel, 2: twin) handles a frame the other run does not see
EarlierFrame(r, g) ==
    /\ phase = "earlier"
    /\ IF r = 1
       THEN vessel' = HandleFrame(vessel, g) /\ UNCHANGED twin
       ELSE twin' = HandleFrame(twin, g) /\ UNCHANGED vessel
    /\ UNCHANGED <<binding, compiled, vessel_in, pc, got, rx, WR_buf, wrIdx, wrCmplt,
                   tx, rdIdx, rdCmplt, req, resp, out, frames>>
    /\ UNCHANGED <<INTSTAT, hw, wr, overlap, phase, cfg, api>>
    /\ UNCHANGED portVars

\* both runs receive and handle the frame g
SameFrame(g) ==
    /\ phase = "earlier"
    /\ vessel' = HandleFrame(vessel, g)
    /\ twin' = HandleFrame(twin, g)
    /\ req' = g
    /\ phase' = "same"
    /\ UNCHANGED <<binding, compiled, vessel_in, pc, got, rx, WR_buf, wrIdx, wrCmplt,
                   tx, rdIdx, rdCmplt, resp, out, frames>>
    /\ UNCHANGED <<INTSTAT, hw, wr, overlap, cfg, api>>
    /\ UNCHANGED portVars

NextTwin ==
    \/ \E r \in {1, 2}, g \in TwinFrames : EarlierFrame(r, g)
    \/ \E g \in TwinFrames : SameFrame(g)

SpecTwin == InitTwin /\ [][NextTwin]_vars

\* C11, as claimed: two runs that handled different earlier frames and then
\* receive the same frame end with identical vessel contents.
C11_Stateless ==
    phase = "same" => vessel = twin

\* C11, amended: after the same frame the two runs agree on addr, cmd and dat,
\* which are set from the frame's bytes alone, and on pin and port when the
\* frame is addressed to GPIO_REGISTER; for any other address pin and port are
\* what the earlier frames left in each run.
C11_FrameFieldsStateless ==
    phase = "same" =>
        /\ vessel.addr = req[1] /\ twin.addr = req[1]
        /\ vessel.cmd = req[2] /\ twin.cmd = req[2]
        /\ vessel.dat = twin.dat
        /\ req[1] = GPIO_REGISTER => (vessel.pin = twin.pin /\ vessel.port = twin.port)

\* both runs began with pin 5, port 9; one handled a GPIO frame earlier, the
\* other did not; after the same frame to address 0 they agree on dat only
C11_Witness ==
    /\ phase = "same"
    /\ req = <<0, 0, 18, 0>>
    /\ vessel.dat = 1 /\ twin.dat = 1
    /\ vessel.pin = 0 /\ vessel.port = 0
    /\ twin.pin = 5 /\ twin.port = 9

(***************************************************************************)
(* Spec: whole frames in, whole frames out                                 *)
(***************************************************************************)
\* C12, as claimed: Python_getData returns only once the host has delivered
\* the 4 bytes of the current request, and the bytes it decoded are those 4.
C12_NoPartialFrame ==
    pc = "parser" => (Len(req) = FrameLen /\ got = req)

\* C19, as claimed: Python_sendData returns only once the host has taken the
\* 4 response bytes, in the order they were handed to the transport.
C19_NoPartialResponse ==
    [][(pc = "sendWait" /\ pc' = "getData") => (Len(out) = FrameLen /\ out = tx)]_vars

(***************************************************************************)
(* SpecPins: Read and ReadDataReg between Writes and changes of the pins   *)
(***************************************************************************)
\* the values Write is called with: all bits clear, all bits set
PinWriteValues == {0, 255}

\* the levels the pins of the physical port take
PinSamples == {0, 90, 165, 255}

InitPins ==
    /\ FrameIdle
    /\ DR = 0
    /\ PS \in PinSamples
    /\ ports \in PortPairs
    /\ lastW = [p \in PortNames |-> -1]
    /\ call = [op |-> "none", p |-> "A", arg |-> 0, ret |-> 0]
    /\ ExtIdle

\* Read that latches the pin state into the Data register on its way
Read_Latches(p) ==
    /\ call' = [op |-> "Read", p |-> p, arg |-> 0, ret |-> GPIO_Read(ports[p], PS)]
    /\ DR' = PS
    /\ UNCHANGED <<PS, ports, lastW>>
    /\ UNCHANGED <<frameVars, extVars>>

\* Read that takes its value from the Data register
Read_FromDataReg(p) ==
    /\ call' = [op |-> "Read", p |-> p, arg |-> 0, ret |-> GPIO_Read(ports[p], DR)]
    /\ UNCHANGED <<DR, PS, ports, lastW>>
    /\ UNCHANGED <<frameVars, extVars>>

\* GPIO_12_7.c:93-96: port p's Read()
Read(p) ==
    /\ call' = [op |-> "Read", p |-> p, arg |-> 0, ret |-> GPIO_Read(ports[p], PS)]
    /\ UNCHANGED <<DR, PS, ports, lastW>>
    /\ UNCHANGED <<frameVars, extVars>>

\* the hardware: the levels on the pins change, by the output drivers or from
\* outside
PinChange(level) ==
    /\ level # PS
    /\ PS' = level
    /\ call' = [op |-> "PinChange", p |-> "A", arg |-> level, ret |-> 0]
    /\ UNCHANGED <<DR, ports, lastW>>
    /\ UNCHANGED <<frameVars, extVars>>

NextPins ==
    \/ \E p \in PortNames, value \in PinWriteValues : Write(p, value)
    \/ \E p \in PortNames : ReadDataReg(p)
    \/ \E p \in PortNames : Read(p)
    \/ \E level \in PinSamples : PinChange(level)

SpecPins == InitPins /\ [][NextPins]_vars

\* C13: a Read or a ReadDataReg changes neither the Data register nor the
\* Pin-State register nor any other state of the driver, and called again
\* straight after itself it returns the value it returned before.
C13_ReadsHaveNoEffect ==
    [][call'.op \in {"Read", "ReadDataReg"} =>
         /\ DR' = DR /\ PS' = PS /\ INTSTAT' = INTSTAT
         /\ ports' = ports /\ lastW' = lastW
         /\ UNCHANGED <<frameVars, extVars>>
         /\ (call.op = call'.op /\ call.p = call'.p) => call'.ret = call.ret]_vars

\* a Read that returned a non-zero value after a Write: the register still
\* holds what was written, the pins what they showed
C13_Witness ==
    /\ call.op = "Read"
    /\ call.ret # 0
    /\ call.ret = Field(ports[call.p], PS)
    /\ lastW[call.p] = 0
    /\ Field(ports[call.p], DR) = 0
    /\ DR # 0

\* C14: Read returns (PS & MASK) >> SHIFT and ReadDataReg returns
\* (DR & MASK) >> SHIFT, both within the port's width; a Write leaves the
\* Pin-State register, and with it the result of Read, as it was, and a change
\* of the pins leaves the Data register, and with it the result of
\* ReadDataReg, as it was.
C14_ReadSources ==
    [][/\ call'.op = "Read" =>
            /\ call'.ret = Field(ports[call'.p], PS)
            /\ call'.ret < Pow2(ports[call'.p].width)
       /\ call'.op = "ReadDataReg" =>
            /\ call'.ret = Field(ports[call'.p], DR)
            /\ call'.ret < Pow2(ports[call'.p].width)
       /\ call'.op = "Write" =>
            /\ PS' = PS
            /\ \A p \in PortNames : GPIO_Read(ports'[p], PS') = GPIO_Read(ports[p], PS)
       /\ call'.op = "PinChange" =>
            /\ DR' = DR
            /\ \A p \in PortNames :
                 GPIO_ReadDataReg(ports'[p], DR') = GPIO_ReadDataReg(ports[p], DR)]_vars

\* a Read of a port whose pins and Data register bits differ: it returns the
\* pins' value, not the value last written
C14_Witness ==
    /\ call.op = "Read"
    /\ lastW[call.p] = 255
    /\ Field(ports[call.p], DR) = Pow2(ports[call.p].width) - 1
    /\ call.ret = Field(ports[call.p], PS)
    /\ call.ret # Field(ports[call.p], DR)
    /\ ports[call.p].width > 1

(***************************************************************************)
(* SpecRace: Writes of the two sibling ports issued from two flows of      *)
(* control (the main loop and an interrupt handler, say), the read step    *)
(* and the write step of each Write being separate steps                   *)
(***************************************************************************)
InitRace ==
    /\ FrameIdle
    /\ DR = 0
    /\ PS = 0
    /\ ports \in PortPairs
    /\ lastW = [p \in PortNames |-> -1]
    /\ call = [op |-> "none", p |-> "A", arg |-> 0, ret |-> 0]
    /\ ExtIdle

\* GPIO_12_7.c:41: port p's Write(value) reads the register into staticBits
WriteRead(p, value) ==
    /\ wr[p].pc = "idle"
    /\ wr' = [wr EXCEPT ![p] = [pc |-> "store",
                                staticBits |-> GPIO_Write_staticBits(ports[p], DR),
                                value |-> value]]
    /\ UNCHANGED <<INTSTAT, hw, overlap, twin, phase, cfg, api>>
    /\ UNCHANGED <<frameVars, portVars>>

\* GPIO_12_7.c:42: port p's Write stores staticBits and its new bits and
\* returns; the other port's Write, if it has read and not yet stored, overlaps
WriteStore(p) ==
    /\ wr[p].pc = "store"
    /\ DR' = GPIO_Write_store(ports[p], wr[p].staticBits, wr[p].value)
    /\ lastW' = [lastW EXCEPT ![p] = wr[p].value]
    /\ call' = [op |-> "Write", p |-> p, arg |-> wr[p].value, ret |-> 0]
    /\ wr' = [wr EXCEPT ![p] = [pc |-> "idle", staticBits |-> 0, value |-> 0]]
    /\ overlap' = (overlap \/ wr[IF p = "A" THEN "B" ELSE "A"].pc = "store")
    /\ UNCHANGED <<PS, ports>>
    /\ UNCHANGED <<INTSTAT, hw, twin, phase, cfg, api>>
    /\ UNCHANGED frameVars

NextRace ==
    \/ \E p \in PortNames, value \in PinWriteValues : WriteRead(p, value)
    \/ \E p \in PortNames : WriteStore(p)

SpecRace == InitRace /\ [][NextRace]_vars

\* port p has been written, no Write of it is in progress, and its
\* ReadDataReg would not return the value last written to it
LostUpdate(p) ==
    /\ lastW[p] # -1
    /\ wr[p].pc = "idle"
    /\ GPIO_ReadDataReg(ports[p], DR) # lastW[p] % Pow2(ports[p].width)

\* C16: with the read step and the write step of the Writes of two sibling
\* ports free to interleave, a port's ReadDataReg can differ from the value
\* last written to it, and it never does as long as every Write has completed
\* before the next began.
C16_LostUpdateOnlyInterleaved ==
    (\E p \in PortNames : LostUpdate(p)) => overlap

\* A read the register, B wrote all ones, A stored over B's bits: B's
\* ReadDataReg is 0 after Write(255)
C16_Witness ==
    /\ overlap
    /\ call.op = "Write" /\ call.p = "A"
    /\ lastW["B"] = 255
    /\ LostUpdate("B")
    /\ GPIO_ReadDataReg(ports["B"], DR) = 0
    /\ ~LostUpdate("A")

(***************************************************************************)
(* SpecInt: ClearInterrupt of two sibling ports on one interrupt status    *)
(* register                                                                *)
(***************************************************************************)
\* the status bits a pin interrupt sets
IntSamples == {1, 2, 64, 255}

\* the driver leaves the clearing to the silicon: a read of the status
\* register either clears the register or it does not
InitInt ==
    /\ FrameIdle
    /\ DR = 0
    /\ PS = 0
    /\ ports \in PortPairs
    /\ lastW = [p \in PortNames |-> -1]
    /\ call = [op |-> "none", p |-> "A", arg |-> 0, ret |-> 0]
    /\ INTSTAT = 0
    /\ hw \in {[clearOnRead |-> b] : b \in BOOLEAN}
    /\ wr = [p \in PortNames |-> [pc |-> "idle", staticBits |-> 0, value |-> 0]]
    /\ overlap = FALSE
    /\ twin = ZeroVessel
    /\ phase = "idle"
    /\ cfg = [psoc5a |-> FALSE, portnum |-> 0, mask |-> 1, intstat |-> TRUE]
    /\ api = {}

\* the hardware: pins of the physical port raise their status bits
Interrupt(bits) ==
    /\ INTSTAT' = Or(INTSTAT, bits)
    /\ INTSTAT' # INTSTAT
    /\ call' = [op |-> "Interrupt", p |-> "A", arg |-> bits, ret |-> 0]
    /\ UNCHANGED <<DR, PS, ports, lastW>>
    /\ UNCHANGED <<hw, wr, overlap, twin, phase, cfg, api>>
    /\ UNCHANGED frameVars

\* GPIO_12_7.c:136-139: port p's ClearInterrupt(); arg records the register
\* as the call read it
ClearInterrupt(p) ==
    /\ call' = [op |-> "ClearInterrupt", p |-> p, arg |-> INTSTAT,
                ret |-> GPIO_ClearInterrupt(ports[p], INTSTAT)]
    /\ INTSTAT' = IF hw.clearOnRead THEN 0 ELSE INTSTAT
    /\ UNCHANGED <<DR, PS, ports, lastW>>
    /\ UNCHANGED <<hw, wr, overlap, twin, phase, cfg, api>>
    /\ UNCHANGED frameVars

NextInt ==
    \/ \E bits \in IntSamples : Interrupt(bits)
    \/ \E p \in PortNames : ClearInterrupt(p)

SpecInt == InitInt /\ [][NextInt]_vars

P15 == 15

P15_RESERVED == 192

\* GPIO_x__PORT of the components built
PortNumSamples == {0, 6, 12, 15}

\* a build: CY_PSOC5A, GPIO_x__PORT, GPIO_x__MASK, and whether cyfitter.h
\* defines GPIO_x__INTSTAT
Configurations ==
    [psoc5a : BOOLEAN, portnum : PortNumSamples,
     mask : {d.mask : d \in Descriptors}, intstat : BOOLEAN]

\* the functions of GPIO_12_7.c
PortFunctions == {"Write", "SetDriveMode", "Read", "ReadDataReg"}

\* the guard looks at port and mask alone
Materialize_AnyFamily(c) ==
    IF ~(c.portnum = P15 /\ And(c.mask, P15_RESERVED) # 0)
    THEN PortFunctions \cup (IF c.intstat THEN {"ClearInterrupt"} ELSE {})
    ELSE {}

\* GPIO_12_7.c:20-22 and 143 (#if !(CY_PSOC5A && PORT == 15 && (MASK & 0xC0)
\* != 0) around every function), 120 and 141 (#if defined(GPIO_12_7_INTSTAT)
\* around ClearInterrupt): the functions the translation unit defines
Materialize(c) ==
    IF ~(c.psoc5a /\ c.portnum = P15 /\ And(c.mask, P15_RESERVED) # 0)
    THEN PortFunctions \cup (IF c.intstat THEN {"ClearInterrupt"} ELSE {})
    ELSE {}

InitBuild ==
    /\ FrameIdle
    /\ PortIdle
    /\ INTSTAT = 0
    /\ hw = [clearOnRead |-> TRUE]
    /\ wr = [p \in PortNames |-> [pc |-> "idle", staticBits |-> 0, value |-> 0]]
    /\ overlap = FALSE
    /\ twin = ZeroVessel
    /\ phase = "configured"
    /\ cfg \in Configurations
    /\ api = {}

\* the component is compiled
Build ==
    /\ phase = "configured"
    /\ api' = Materialize(cfg)
    /\ phase' = "built"
    /\ UNCHANGED <<INTSTAT, hw, wr, overlap, twin, cfg>>
    /\ UNCHANGED <<frameVars, portVars>>

NextBuild == Build

SpecBuild == InitBuild /\ [][NextBuild]_vars

\* the port lies on physical port 15 and owns one of its bits [7:6]
OnReservedBits(c) == c.portnum = P15 /\ And(c.mask, P15_RESERVED) # 0

=============================================================================
